---- MODULE Spec2Model ----
(***************************************************************************)
(* PicoTest test adapter: the adapter's load/run/cancel state machine      *)
(* (src/src/picotest-adapter.ts) over the discovery and execution          *)
(* subprocess protocol (src/src/picotest-runner.ts).                       *)
(*                                                                         *)
(* The adapter runs on a single-threaded event loop.  Every action below   *)
(* is one synchronous segment of code: from a host request, an await       *)
(* continuation or an I/O callback up to the next await, return, or event  *)
(* emission at which a listener may re-enter the adapter.                  *)
(***************************************************************************)
EXTENDS Integers, Sequences, FiniteSets, TLC

VARIABLES
  state,               \* PicotestAdapter.state
  currentTestProcess,  \* PicotestAdapter.currentTestProcess: a key of procs, 0 = undefined
  picotestTests,       \* PicotestAdapter.picotestTests
  pc,                  \* where the in-flight load()/run() call stands
  call,                \* locals of the in-flight call
  calls,               \* number of load()/run() calls accepted so far
  procs,               \* the subprocesses that still have something to deliver, by spawning call
  fired,               \* what the latest step put out, in order: the notifications fired on the
                       \* emitters and the subprocess spawned
  lastCall,            \* the host request the latest step handled: "load", "run", "cancel",
                       \* "dispose" or "none"
  log,                 \* history kept by CallSpec and EventSpec: the notifications fired (and the
                       \* cancel() requests accepted), in order
  seen,                \* history kept by EventSpec: the lifecycle events dispatched to onEvent;
                       \* by LoadSpec: the values decoded during the latest accepted load()
  subst                \* the locals of a configGetStr call: str, the value substituted for
                       \* '${workspaceFolder}', and where the call stands (turn: see
                       \* ConfigReplace)

vars ==
  <<state, currentTestProcess, picotestTests, pc, call, calls, procs, fired, lastCall, log, seen,
    subst>>

----------------------------------------------------------------------------
(* Bounds of the model *)

\* accepted load()/run() calls in one behaviour of Spec
MaxCalls == 2
\* values the output streams of the pending subprocesses deliver in Spec and CallSpec
MaxEvents == 2
\* lifecycle events dispatched in the single run of EventSpec
DeepEvents == 5
\* values decoded in one load() call of LoadSpec
MaxNodes == 2
\* pieces a configuration string of ConfigSpec is made of
MaxPieces == 2
\* characters of the string of a configGetStr call that ConfigSpec keeps
MaxStr == 64

----------------------------------------------------------------------------
(* Constants of the program *)

ROOT_SUITE_ID == "*"

NoProcess == 0

\* the exit code of a process that has not exited or was ended by a signal (null)
NullCode == -1
\* the exit codes the environment draws from
ExitCodes == {0, 1, NullCode}
\* the exit codes Spec draws from (CallSpec draws from all of ExitCodes)
MainCodes == {1}

----------------------------------------------------------------------------
(* Inputs *)

\* run() requests of the host
TestRequests == { <<ROOT_SUITE_ID>>, <<"c1">>, <<ROOT_SUITE_ID, "c1">> }
\* the requests Spec draws from (CallSpec draws from all of TestRequests)
MainRequests == { <<ROOT_SUITE_ID>>, <<"c1">> }

\* split(runArgs) and split(loadArgs) for the default settings of
\* picotestExplorer.runArgs and picotestExplorer.loadArgs
runArgs == <<"-j">>
loadArgs == <<"-J">>

\* lifecycle events written by the test binary (PicotestEvent)
F1 == [hook |-> "FAILURE", file |-> "f.c", line |-> 10, type |-> "ASSERT", test |-> "c1", msg |-> "x!=y"]
\* a failure without msg: the optional field is absent (falsy), modelled as ""
F2 == [hook |-> "FAILURE", file |-> "g.c", line |-> 1, type |-> "VERIFY", test |-> "c1", msg |-> ""]
SE == [hook |-> "SUITE_ENTER", suiteName |-> "S", nb |-> 1]
SL == [hook |-> "SUITE_LEAVE", suiteName |-> "S", nb |-> 1, fail |-> 1]
CE == [hook |-> "CASE_ENTER", testName |-> "c1"]
CL0 == [hook |-> "CASE_LEAVE", testName |-> "c1", fail |-> 0]
CL1 == [hook |-> "CASE_LEAVE", testName |-> "c1", fail |-> 1]

Events == {F1, F2, SE, SL, CE, CL0, CL1}
\* the events Spec draws from (EventSpec draws from all of Events)
MainEvents == {CE, CL1}

\* the events BufferSpec draws from
BufferEvents == {F1, CL1}
\* the events LineSpec draws from
LineEvents == {F1, F2, CE, CL1}

\* the characters of '${workspaceFolder}', the one key of the substitution map
WorkspaceFolderKey ==
  <<"$", "{", "w", "o", "r", "k", "s", "p", "a", "c", "e", "F", "o", "l", "d", "e", "r", "}">>
\* '${workspace' and 'Folder}'
KeyHead == SubSeq(WorkspaceFolderKey, 1, 11)
KeyTail == SubSeq(WorkspaceFolderKey, 12, 18)
\* '/bin' and '/ws'
Bin == <<"/", "b", "i", "n">>
Ws == <<"/", "w", "s">>

\* configuration strings: '' (an unset setting) and the concatenations of up
\* to MaxPieces pieces
ConfigPieces == {WorkspaceFolderKey, Bin, KeyHead, KeyTail}
RECURSIVE Concats(_)
Concats(n) ==
  IF n = 0 THEN {<<>>}
  ELSE Concats(n - 1) \cup {c \o piece : c \in Concats(n - 1), piece \in ConfigPieces}
ConfigStrings == Concats(MaxPieces)

\* workspace folder paths (workspaceFolder.uri.fsPath): a plain one, a
\* directory whose name contains the key, one whose name ends with the head
\* of the key
WorkspacePaths == {Ws, Ws \o WorkspaceFolderKey, Ws \o KeyHead}

\* discovered nodes written by the test binary in list mode (PicotestTestInfo)
T1 == [name |-> "t1", file |-> "f.c", line |-> 5]
RootNode == [name |-> "Root", file |-> "f.c", line |-> 3, subtests |-> <<T1>>]
\* a suite without subtests, and a document that carries children instead
EmptySuite == [name |-> "E", file |-> "g.c", line |-> 1, subtests |-> <<>>]
ChildrenNode == [name |-> "Root", file |-> "f.c", line |-> 3, children |-> <<T1>>]
\* a suite of suites
NestedNode == [name |-> "N", file |-> "h.c", line |-> 7, subtests |-> <<RootNode, EmptySuite>>]
TestNodes == {T1, RootNode, ChildrenNode, NestedNode}
\* the nodes Spec draws from
MainNodes == {T1}

----------------------------------------------------------------------------
(* Pure functions of picotest-adapter.ts *)

RECURSIVE Join(_, _)
Join(lines, sep) ==
  IF lines = <<>> THEN ""
  ELSE IF Len(lines) = 1 THEN lines[1]
  ELSE lines[1] \o sep \o Join(Tail(lines), sep)

Map(f(_), s) == [i \in 1..Len(s) |-> f(s[i])]

getErrorMessage(event) ==
  IF event.msg # ""
    THEN "[" \o event.type \o "] " \o event.test \o " | " \o event.msg
    ELSE "[" \o event.type \o "] " \o event.test

toDecoration(event) ==
  [line |-> event.line - 1, file |-> event.file, message |-> getErrorMessage(event)]

\* variant: the message shows the 0-based line of the decoration
toMessage_ZeroBased(event) ==
  event.file \o ":" \o ToString(event.line - 1) \o " - " \o getErrorMessage(event)

toMessage(event) ==
  event.file \o ":" \o ToString(event.line) \o " - " \o getErrorMessage(event)

\* variant: a node is a suite only if it has at least one subtest
RECURSIVE convertPicotestInfo_EmptyIsTest(_)
convertPicotestInfo_EmptyIsTest(test) ==
  IF "subtests" \in DOMAIN test /\ test.subtests # <<>>
    THEN [type |-> "suite", id |-> test.name, label |-> test.name, file |-> test.file,
          line |-> test.line - 1,
          children |-> [i \in 1..Len(test.subtests) |->
                          convertPicotestInfo_EmptyIsTest(test.subtests[i])]]
    ELSE [type |-> "test", id |-> test.name, label |-> test.name, file |-> test.file,
          line |-> test.line - 1]

RECURSIVE convertPicotestInfo(_)
convertPicotestInfo(test) ==
  IF "subtests" \in DOMAIN test
    THEN [type |-> "suite", id |-> test.name, label |-> test.name, file |-> test.file,
          line |-> test.line - 1,
          children |-> [i \in 1..Len(test.subtests) |-> convertPicotestInfo(test.subtests[i])]]
    ELSE [type |-> "test", id |-> test.name, label |-> test.name, file |-> test.file,
          line |-> test.line - 1]

\* String.prototype.indexOf: the 0-based index of the first occurrence, -1
\* if there is none
indexOf(str, key) ==
  LET S == {i \in 1..(Len(str) - Len(key) + 1) : SubSeq(str, i, i + Len(key) - 1) = key}
  IN IF S = {} THEN -1 ELSE (CHOOSE i \in S : \A j \in S : i <= j) - 1

\* String.prototype.replace with a string pattern: the first occurrence only
\* (no input of the model holds a replacement pattern such as $$ or $&)
replace(str, key, value) ==
  LET i == indexOf(str, key)
  IN IF i = -1 THEN str
     ELSE SubSeq(str, 1, i) \o value \o SubSeq(str, i + Len(key) + 1, Len(str))

----------------------------------------------------------------------------
(* Notifications.  emitter names the EventEmitter fired; run is the number  *)
(* of the load()/run() call whose code fired it.                            *)

LoadStartedEvent(r) == [emitter |-> "tests", type |-> "started", run |-> r]
LoadFinishedSuite(r, suite) == [emitter |-> "tests", type |-> "finished", suite |-> suite, run |-> r]
\* variant: a failed load reports an empty root suite next to the error message
LoadFinishedError_WithSuite(r, e) ==
  [emitter |-> "tests", type |-> "finished",
   suite |-> [type |-> "suite", id |-> "*", label |-> "PicoTest", children |-> <<>>],
   errorMessage |-> e, run |-> r]
LoadFinishedError(r, e) == [emitter |-> "tests", type |-> "finished", errorMessage |-> e, run |-> r]
RunStartedEvent(r, tests) == [emitter |-> "testStates", type |-> "started", tests |-> tests, run |-> r]
RunFinishedEvent(r) == [emitter |-> "testStates", type |-> "finished", run |-> r]
SuiteEvent(r, suite, st) == [emitter |-> "testStates", type |-> "suite", suite |-> suite, state |-> st, run |-> r]
SuiteErrored(r, suite, e) ==
  [emitter |-> "testStates", type |-> "suite", suite |-> suite, state |-> "errored", message |-> e, run |-> r]
TestRunning(r, test) == [emitter |-> "testStates", type |-> "test", test |-> test, state |-> "running", run |-> r]
TestResult(r, test, st, failures) ==
  [emitter |-> "testStates", type |-> "test", test |-> test, state |-> st,
   decorations |-> Map(toDecoration, failures),
   message |-> Join(Map(toMessage, failures), "\n"), run |-> r]
RetireEvent(r, tests) == [emitter |-> "retire", tests |-> tests, run |-> r]

\* not a notification: the record fired keeps of child_process.spawn(command, args)
Spawned(r, args) == [emitter |-> "child_process", type |-> "spawn", args |-> args, run |-> r]

----------------------------------------------------------------------------
(* The onEvent callback of runTests: what one lifecycle event does to the   *)
(* failures buffer of the run and which notification it fires.              *)

\* variant: CASE_ENTER leaves the buffer alone
OnEventFailures_NeverReset(event, failures) ==
  IF event.hook = "FAILURE" THEN Append(failures, event) ELSE failures

\* variant: CASE_LEAVE empties the buffer too
OnEventFailures_ResetOnLeave(event, failures) ==
  CASE event.hook = "FAILURE" -> Append(failures, event)
    [] event.hook \in {"CASE_ENTER", "CASE_LEAVE"} -> <<>>
    [] OTHER -> failures

\* variant: the buffer is emptied when a suite is left
OnEventFailures_SuiteLeaveResets(event, failures) ==
  CASE event.hook = "FAILURE" -> Append(failures, event)
    [] event.hook \in {"CASE_ENTER", "SUITE_LEAVE"} -> <<>>
    [] OTHER -> failures

OnEventFailures(event, failures) ==
  CASE event.hook = "FAILURE" -> Append(failures, event)
    [] event.hook = "CASE_ENTER" -> <<>>
    [] OTHER -> failures

\* variant: a FAILURE is reported at once as a failed test
OnEventFires_FailureNotifies(r, event, failures) ==
  CASE event.hook = "FAILURE" -> <<TestResult(r, event.test, "failed", <<event>>)>>
    [] event.hook = "SUITE_ENTER" -> <<SuiteEvent(r, event.suiteName, "running")>>
    [] event.hook = "SUITE_LEAVE" -> <<SuiteEvent(r, event.suiteName, "completed")>>
    [] event.hook = "CASE_ENTER" -> <<TestRunning(r, event.testName)>>
    [] event.hook = "CASE_LEAVE" ->
         <<TestResult(r, event.testName, IF event.fail # 0 THEN "failed" ELSE "passed", failures)>>
    [] OTHER -> <<>>

OnEventFires(r, event, failures) ==
  CASE event.hook = "FAILURE" -> <<>>
    [] event.hook = "SUITE_ENTER" -> <<SuiteEvent(r, event.suiteName, "running")>>
    [] event.hook = "SUITE_LEAVE" -> <<SuiteEvent(r, event.suiteName, "completed")>>
    [] event.hook = "CASE_ENTER" -> <<TestRunning(r, event.testName)>>
    [] event.hook = "CASE_LEAVE" ->
         <<TestResult(r, event.testName, IF event.fail # 0 THEN "failed" ELSE "passed", failures)>>
    [] OTHER -> <<>>

----------------------------------------------------------------------------
(* Subprocesses *)

\* a process spawned by loadPicotestTests: tests is the array its 'data'
\* handler pushes to; open until the decoder emits 'end' or 'error';
\* delivered counts the values its stream decoder has emitted
LoadProcess(r) ==
  [kind |-> "load", run |-> r, alive |-> TRUE, kills |-> 0,
   open |-> TRUE, delivered |-> 0, tests |-> <<>>, failures |-> <<>>]

\* variant: the buffer is shared with the run before, if its subprocess is
\* still pending
RunProcess_SharedBuffer(r) ==
  [kind |-> "run", run |-> r, alive |-> TRUE, kills |-> 0,
   open |-> TRUE, delivered |-> 0, tests |-> <<>>,
   failures |-> (IF r - 1 \in DOMAIN procs /\ procs[r - 1].kind = "run"
                   THEN procs[r - 1].failures ELSE <<>>),
   code |-> NullCode]

\* a process spawned by schedulePicotestTestProcess: failures is the buffer
\* of the runTests call that owns it, code its exit code
RunProcess(r) ==
  [kind |-> "run", run |-> r, alive |-> TRUE, kills |-> 0,
   open |-> TRUE, delivered |-> 0, tests |-> <<>>, failures |-> <<>>, code |-> NullCode]

\* the PicotestTestResult the 'exit' handler resolves with
PicotestTestResult(code) == [code |-> code]

Procs == DOMAIN procs

\* a process that has ended and whose stream has ended: no callback of it is
\* pending
Gone(proc) == ~proc.alive /\ ~proc.open

\* procs without the processes that are gone
Pending(ps) == [q \in {q \in DOMAIN ps : ~Gone(ps[q])} |-> ps[q]]

\* cancelPicotestTestProcess: testProcess.kill()
cancelPicotestTestProcess(p) == [procs EXCEPT ![p].kills = @ + 1]

\* the locals of load()/run() while no call is in flight
\* (result: what the awaited executePicotestTestProcess resolved with, if it has)
NoCall == [id |-> 0, tests |-> <<>>, error |-> "", result |-> <<>>]

----------------------------------------------------------------------------
\* the last n characters of s
Last(s, n) == IF Len(s) <= n THEN s ELSE SubSeq(s, Len(s) - n + 1, Len(s))

\* no configGetStr call in progress
NoSubst == [str |-> <<>>, value |-> <<>>, at |-> "return", turn |-> 0]

Init ==
  /\ state = "idle"
  /\ currentTestProcess = NoProcess
  /\ picotestTests = <<>>
  /\ pc = "idle"
  /\ call = NoCall
  /\ calls = 0
  /\ procs = <<>>
  /\ fired = <<>>
  /\ lastCall = "none"
  /\ log = <<>>
  /\ seen = <<>>
  /\ subst = NoSubst

----------------------------------------------------------------------------
(* load() *)

\* the re-entrancy guard of load()
LoadAccepts == state = "idle"

\* load() up to the await in loadTestSuite
Load ==
  /\ lastCall' = "load"
  /\ IF LoadAccepts
       THEN /\ calls < MaxCalls
            /\ state' = "loading"
            /\ calls' = calls + 1
            /\ call' = [id |-> calls + 1, tests |-> <<>>, error |-> "", result |-> <<>>]
            /\ fired' = <<LoadStartedEvent(calls + 1)>>
            /\ pc' = "load_config"
            /\ UNCHANGED <<currentTestProcess, picotestTests, procs>>
       ELSE /\ fired' = <<>>
            /\ UNCHANGED <<state, currentTestProcess, picotestTests, pc, call, calls, procs>>

\* variant: the directory is checked after the spawn
LoadSpawn_ChecksAfterSpawn ==
  /\ pc = "load_config"
  /\ \E cwdIsDirectory \in BOOLEAN, pid \in BOOLEAN :
       /\ fired' = <<Spawned(call.id, loadArgs)>>
       /\ procs' = (IF pid THEN procs @@ (call.id :> LoadProcess(call.id)) ELSE procs)
       /\ IF ~pid
            THEN /\ call' = [call EXCEPT !.error = "Error: Cannot spawn command"]
                 /\ pc' = "load_settled"
            ELSE IF ~cwdIsDirectory
              THEN /\ call' = [call EXCEPT !.error = "Error: Directory does not exist"]
                   /\ pc' = "load_settled"
              ELSE /\ pc' = "load_stream"
                   /\ call' = call
  /\ UNCHANGED <<state, currentTestProcess, picotestTests, calls>>
  /\ lastCall' = "none"

\* loadPicotestTests up to the point its promise is pending or rejected:
\* the cwd check, the spawn and the pid check
LoadSpawn ==
  /\ pc = "load_config"
  /\ \E cwdIsDirectory \in BOOLEAN, pid \in BOOLEAN :
       /\ fired' = (IF cwdIsDirectory THEN <<Spawned(call.id, loadArgs)>> ELSE <<>>)
       /\ IF ~cwdIsDirectory
         THEN /\ call' = [call EXCEPT !.error = "Error: Directory does not exist"]
              /\ pc' = "load_settled"
              /\ procs' = procs
         ELSE IF ~pid
           THEN /\ call' = [call EXCEPT !.error = "Error: Cannot spawn command"]
                /\ pc' = "load_settled"
                /\ procs' = procs
           ELSE /\ procs' = procs @@ (call.id :> LoadProcess(call.id))
                /\ pc' = "load_stream"
                /\ call' = call
  /\ UNCHANGED <<state, currentTestProcess, picotestTests, calls>>
  /\ lastCall' = "none"

\* the decoder's 'data' handler of loadPicotestTests
LoadData(p, node) ==
  /\ procs[p].kind = "load"
  /\ procs[p].open
  /\ procs' = [procs EXCEPT ![p].tests = Append(@, node), ![p].delivered = @ + 1]
  /\ UNCHANGED <<state, currentTestProcess, picotestTests, pc, call, calls>>
  /\ fired' = <<>>
  /\ lastCall' = "none"

\* the decoder's 'end' handler: resolve(tests); the array now belongs to the
\* awaiting loadTestSuite
LoadEnd(p) ==
  /\ procs[p].kind = "load"
  /\ procs[p].open
  /\ procs' = Pending([procs EXCEPT ![p].open = FALSE, ![p].tests = <<>>])
  /\ IF pc = "load_stream" /\ call.id = procs[p].run
       THEN /\ call' = [call EXCEPT !.tests = procs[p].tests]
            /\ pc' = "load_settled"
       ELSE UNCHANGED <<call, pc>>
  /\ UNCHANGED <<state, currentTestProcess, picotestTests, calls>>
  /\ fired' = <<>>
  /\ lastCall' = "none"

\* the decoder's 'error' handler: reject(error); the array is dropped
LoadError(p) ==
  /\ procs[p].kind = "load"
  /\ procs[p].open
  /\ procs' = Pending([procs EXCEPT ![p].open = FALSE, ![p].tests = <<>>])
  /\ IF pc = "load_stream" /\ call.id = procs[p].run
       THEN /\ call' = [call EXCEPT !.error = "Error: Unexpected token"]
            /\ pc' = "load_settled"
       ELSE UNCHANGED <<call, pc>>
  /\ UNCHANGED <<state, currentTestProcess, picotestTests, calls>>
  /\ fired' = <<>>
  /\ lastCall' = "none"

\* variant: the stored list is replaced whether or not the discovery failed
LoadFireFinished_StoresAlways ==
  /\ pc = "load_settled"
  /\ picotestTests' = call.tests
  /\ fired' = (IF call.error = ""
                 THEN <<LoadFinishedSuite(call.id,
                          [type |-> "suite", id |-> ROOT_SUITE_ID, label |-> "PicoTest",
                           children |-> Map(convertPicotestInfo, call.tests)])>>
                 ELSE <<LoadFinishedError(call.id, call.error)>>)
  /\ pc' = "load_finished"
  /\ UNCHANGED <<state, currentTestProcess, call, calls, procs>>
  /\ lastCall' = "none"

\* variant: a successful discovery is added to the stored list
LoadFireFinished_Appends ==
  /\ pc = "load_settled"
  /\ IF call.error = ""
       THEN /\ picotestTests' = picotestTests \o call.tests
            /\ fired' = <<LoadFinishedSuite(call.id,
                  [type |-> "suite", id |-> ROOT_SUITE_ID, label |-> "PicoTest",
                   children |-> Map(convertPicotestInfo, call.tests)])>>
       ELSE /\ picotestTests' = picotestTests
            /\ fired' = <<LoadFinishedError(call.id, call.error)>>
  /\ pc' = "load_finished"
  /\ UNCHANGED <<state, currentTestProcess, call, calls, procs>>
  /\ lastCall' = "none"

\* the rest of loadTestSuite and load()'s try/catch, up to the emission of
\* 'finished'
LoadFireFinished ==
  /\ pc = "load_settled"
  /\ IF call.error = ""
       THEN /\ picotestTests' = call.tests
            /\ fired' = <<LoadFinishedSuite(call.id,
                  [type |-> "suite", id |-> ROOT_SUITE_ID, label |-> "PicoTest",
                   children |-> Map(convertPicotestInfo, call.tests)])>>
       ELSE /\ picotestTests' = picotestTests
            /\ fired' = <<LoadFinishedError(call.id, call.error)>>
  /\ pc' = "load_finished"
  /\ UNCHANGED <<state, currentTestProcess, call, calls, procs>>
  /\ lastCall' = "none"

\* variant: the state is restored only when the load succeeded
LoadReturn_OnlyOnSuccess ==
  /\ pc = "load_finished"
  /\ state' = (IF call.error = "" THEN "idle" ELSE state)
  /\ pc' = "idle"
  /\ call' = NoCall
  /\ UNCHANGED <<currentTestProcess, picotestTests, calls, procs>>
  /\ fired' = <<>>
  /\ lastCall' = "none"

\* the last statement of load()
LoadReturn ==
  /\ pc = "load_finished"
  /\ state' = "idle"
  /\ pc' = "idle"
  /\ call' = NoCall
  /\ UNCHANGED <<currentTestProcess, picotestTests, calls, procs>>
  /\ fired' = <<>>
  /\ lastCall' = "none"

----------------------------------------------------------------------------
(* run() *)

\* variant: the guard rejects only a run or a load in progress
RunAccepts_UnlessCancelled == state \notin {"running", "loading"}

\* the re-entrancy guard of run()
RunAccepts == state = "idle"

\* variant: any request that names the root suite runs everything
runAll_Contains(tests) == \E i \in DOMAIN tests : tests[i] = ROOT_SUITE_ID

runAll(tests) == Len(tests) = 1 /\ tests[1] = ROOT_SUITE_ID

\* variant: one subprocess per test id, the first only
RunTestsArg_OnePerTest(tests) == IF runAll(tests) THEN <<>> ELSE <<tests[1]>>

\* the test ids run() passes to runTests
RunTestsArg(tests) == IF runAll(tests) THEN <<>> ELSE tests

\* run() up to the call of runTests: the guard, 'started' and, for a run of
\* everything, the root suite 'running'
Run(tests) ==
  /\ lastCall' = "run"
  /\ IF RunAccepts
       THEN /\ calls < MaxCalls
            /\ state' = "running"
            /\ calls' = calls + 1
            /\ call' = [id |-> calls + 1, tests |-> tests, error |-> "", result |-> <<>>]
            /\ fired' = <<RunStartedEvent(calls + 1, tests)>>
                        \o (IF runAll(tests)
                              THEN <<SuiteEvent(calls + 1, ROOT_SUITE_ID, "running")>>
                              ELSE <<>>)
            /\ pc' = "run_enter"
            /\ UNCHANGED <<currentTestProcess, picotestTests, procs>>
       ELSE /\ fired' = <<>>
            /\ UNCHANGED <<state, currentTestProcess, picotestTests, pc, call, calls, procs>>

\* runTests from its entry to its first await: a run already cancelled (by a
\* listener of 'started') retires its tests and returns
RunTestsEnter ==
  /\ pc = "run_enter"
  /\ IF state = "cancelled"
       THEN /\ fired' = <<RetireEvent(call.id, RunTestsArg(call.tests))>>
            /\ pc' = "run_after"
       ELSE /\ fired' = <<>>
            /\ pc' = "run_config"
  /\ UNCHANGED <<state, currentTestProcess, picotestTests, call, calls, procs>>
  /\ lastCall' = "none"

\* variant: no finally clause
KeptProcess(p) == p

\* what the finally clause of runTests leaves in currentTestProcess
ReleasedProcess(p) == NoProcess

\* runTests after the await of the config strings: schedulePicotestTestProcess
\* spawns (or throws, and the finally clause runs), and
\* executePicotestTestProcess installs its handlers
RunTestsSpawn ==
  /\ pc = "run_config"
  /\ \E pid \in BOOLEAN :
       IF pid
         THEN /\ procs' = procs @@ (call.id :> RunProcess(call.id))
              /\ currentTestProcess' = call.id
              /\ pc' = "run_execute"
              /\ call' = call
         ELSE /\ procs' = procs
              /\ currentTestProcess' = ReleasedProcess(currentTestProcess)
              /\ call' = [call EXCEPT !.error = "Error: Cannot run tests"]
              /\ pc' = "run_after"
  /\ UNCHANGED <<state, picotestTests, calls>>
  /\ fired' = <<Spawned(call.id, runArgs \o RunTestsArg(call.tests))>>
  /\ lastCall' = "none"

\* the decoder's 'data' handler of executePicotestTestProcess: onEvent(event)
OnEvent(p, event) ==
  /\ procs[p].kind = "run"
  /\ procs[p].open
  /\ procs' = [procs EXCEPT ![p].failures = OnEventFailures(event, @),
                            ![p].delivered = @ + 1]
  /\ fired' = OnEventFires(procs[p].run, event, procs[p].failures)
  /\ UNCHANGED <<state, currentTestProcess, picotestTests, pc, call, calls>>
  /\ lastCall' = "none"

\* the process ends (by itself, by a crash or by the signal of kill()) and
\* the 'exit' handler of executePicotestTestProcess runs: the promise
\* resolves, runTests resumes and its finally clause runs
ExitEvent(p, code) ==
  /\ procs[p].kind = "run"
  /\ procs[p].alive
  /\ procs' = Pending([procs EXCEPT ![p].alive = FALSE, ![p].code = code])
  /\ IF pc = "run_execute" /\ call.id = procs[p].run
       THEN /\ currentTestProcess' = ReleasedProcess(currentTestProcess)
            /\ call' = [call EXCEPT !.result = <<PicotestTestResult(code)>>]
            /\ pc' = "run_after"
       ELSE UNCHANGED <<currentTestProcess, call, pc>>
  /\ UNCHANGED <<state, picotestTests, calls>>
  /\ fired' = <<>>
  /\ lastCall' = "none"

\* variant: the state is restored before 'finished' is fired
RunFireFinished_IdleFirst ==
  /\ pc = "run_after"
  /\ state' = "idle"
  /\ fired' = (IF runAll(call.tests)
                 THEN IF call.error = ""
                        THEN <<SuiteEvent(call.id, ROOT_SUITE_ID, "completed")>>
                        ELSE <<SuiteErrored(call.id, ROOT_SUITE_ID, call.error)>>
                 ELSE <<>>)
              \o <<RunFinishedEvent(call.id)>>
  /\ pc' = "run_finished"
  /\ UNCHANGED <<currentTestProcess, picotestTests, call, calls, procs>>
  /\ lastCall' = "none"

\* run() after runTests returned or threw, up to the emission of 'finished'
RunFireFinished ==
  /\ pc = "run_after"
  /\ fired' = (IF runAll(call.tests)
                 THEN IF call.error = ""
                        THEN <<SuiteEvent(call.id, ROOT_SUITE_ID, "completed")>>
                        ELSE <<SuiteErrored(call.id, ROOT_SUITE_ID, call.error)>>
                 ELSE <<>>)
              \o <<RunFinishedEvent(call.id)>>
  /\ pc' = "run_finished"
  /\ UNCHANGED <<state, currentTestProcess, picotestTests, call, calls, procs>>
  /\ lastCall' = "none"

\* variant: only a run that was not cancelled restores the state
RunReturn_UnlessCancelled ==
  /\ pc = "run_finished"
  /\ state' = (IF state = "running" THEN "idle" ELSE state)
  /\ pc' = "idle"
  /\ call' = NoCall
  /\ UNCHANGED <<currentTestProcess, picotestTests, calls, procs>>
  /\ fired' = <<>>
  /\ lastCall' = "none"

\* the last statement of run()
RunReturn ==
  /\ pc = "run_finished"
  /\ state' = "idle"
  /\ pc' = "idle"
  /\ call' = NoCall
  /\ UNCHANGED <<currentTestProcess, picotestTests, calls, procs>>
  /\ fired' = <<>>
  /\ lastCall' = "none"

----------------------------------------------------------------------------
(* cancel() *)

\* variant: cancel() also acts on a run that is already cancelled
CancelAccepts_WhileCancelled == state \in {"running", "cancelled"}

\* variant: cancel() acts on any call in progress
CancelAccepts_UnlessIdle == state # "idle"

CancelAccepts == state = "running"

\* variant: cancel() terminates every subprocess that is still alive
CancelKills_AllAlive == {p \in Procs : procs[p].alive}

\* the processes cancel() terminates
CancelKills == IF currentTestProcess # NoProcess THEN {currentTestProcess} ELSE {}

Cancel ==
  /\ lastCall' = "cancel"
  /\ IF CancelAccepts
       THEN /\ procs' = [p \in Procs |->
                           IF p \in CancelKills THEN cancelPicotestTestProcess(p)[p] ELSE procs[p]]
            /\ state' = "cancelled"
            /\ fired' = <<>>
            /\ UNCHANGED <<currentTestProcess, picotestTests, pc, call, calls>>
       ELSE /\ fired' = <<>>
            /\ UNCHANGED <<state, currentTestProcess, picotestTests, pc, call, calls, procs>>

\* dispose(): cancel(), then the emitters and the file watcher are disposed
\* (neither is part of the state modelled here)
Dispose ==
  /\ lastCall' = "dispose"
  /\ IF CancelAccepts
       THEN /\ procs' = [p \in Procs |->
                           IF p \in CancelKills THEN cancelPicotestTestProcess(p)[p] ELSE procs[p]]
            /\ state' = "cancelled"
            /\ fired' = <<>>
            /\ UNCHANGED <<currentTestProcess, picotestTests, pc, call, calls>>
       ELSE /\ fired' = <<>>
            /\ UNCHANGED <<state, currentTestProcess, picotestTests, pc, call, calls, procs>>

----------------------------------------------------------------------------
(* The environment: the subprocesses *)

\* a discovery process ends; loadPicotestTests listens to no 'exit' event
ProcDie(p) ==
  /\ procs[p].kind = "load"
  /\ procs[p].alive
  /\ procs' = Pending([procs EXCEPT ![p].alive = FALSE])
  /\ UNCHANGED <<state, currentTestProcess, picotestTests, pc, call, calls>>
  /\ fired' = <<>>
  /\ lastCall' = "none"

\* variant: the end of the output rejects the execution in progress
RunStreamEnd_Rejects(p) ==
  /\ procs[p].kind = "run"
  /\ procs[p].open
  /\ procs' = Pending([procs EXCEPT ![p].open = FALSE])
  /\ IF pc = "run_execute" /\ call.id = procs[p].run
       THEN /\ currentTestProcess' = NoProcess
            /\ call' = [call EXCEPT !.error = "Error: Truncated event stream"]
            /\ pc' = "run_after"
       ELSE UNCHANGED <<currentTestProcess, call, pc>>
  /\ UNCHANGED <<state, picotestTests, calls>>
  /\ fired' = <<>>
  /\ lastCall' = "none"

\* the output of an execution process ends (end of file, or a decode error
\* of the stream decoder); executePicotestTestProcess listens to neither
RunStreamEnd(p) ==
  /\ procs[p].kind = "run"
  /\ procs[p].open
  /\ procs' = Pending([procs EXCEPT ![p].open = FALSE])
  /\ UNCHANGED <<state, currentTestProcess, picotestTests, pc, call, calls>>
  /\ fired' = <<>>
  /\ lastCall' = "none"

RECURSIVE Sum(_, _)
Sum(f, S) == IF S = {} THEN 0 ELSE LET x == CHOOSE x \in S : TRUE IN f[x] + Sum(f, S \ {x})

\* the values the pending processes have delivered so far
Delivered == Sum([q \in Procs |-> procs[q].delivered], Procs)

\* the output stream of a discovery process delivers one more decoded value
Discovered(p, node) ==
  /\ Delivered < MaxEvents
  /\ LoadData(p, node)

\* the output stream of an execution process delivers one more decoded event
Data(p, event) ==
  /\ Delivered < MaxEvents
  /\ OnEvent(p, event)

\* the same, for the single run of EventSpec
DeepData(p, event) ==
  /\ procs[p].delivered < DeepEvents
  /\ OnEvent(p, event)

\* run() requests of CallSpec and EventSpec: only the first is accepted
FirstRun(tests) ==
  /\ RunAccepts => calls = 0
  /\ Run(tests)

\* load() requests of CallSpec: only the first is accepted
FirstLoad ==
  /\ LoadAccepts => calls = 0
  /\ Load

----------------------------------------------------------------------------
(* Spec: the adapter under every interleaving of host requests, await      *)
(* continuations and subprocess callbacks.  It keeps no history.           *)

NoHistory(A) == A /\ UNCHANGED <<log, seen, subst>>

Next ==
  \/ NoHistory(Load)
  \/ NoHistory(LoadSpawn)
  \/ \E p \in Procs, node \in MainNodes : NoHistory(Discovered(p, node))
  \/ \E p \in Procs : NoHistory(LoadEnd(p))
  \/ \E p \in Procs : NoHistory(LoadError(p))
  \/ NoHistory(LoadFireFinished)
  \/ NoHistory(LoadReturn)
  \/ \E tests \in MainRequests : NoHistory(Run(tests))
  \/ NoHistory(RunTestsEnter)
  \/ NoHistory(RunTestsSpawn)
  \/ \E p \in Procs, event \in MainEvents : NoHistory(Data(p, event))
  \/ \E p \in Procs : NoHistory(RunStreamEnd(p))
  \/ \E p \in Procs, code \in MainCodes : NoHistory(ExitEvent(p, code))
  \/ NoHistory(RunFireFinished)
  \/ NoHistory(RunReturn)
  \/ NoHistory(Cancel)
  \/ \E p \in Procs : NoHistory(ProcDie(p))

Spec == Init /\ [][Next]_vars

\* the event loop runs every pending continuation, every spawned execution
\* process ends and its 'exit' event is delivered, and the output of every
\* discovery process ends or fails to decode
Continue ==
  \/ NoHistory(LoadSpawn)
  \/ NoHistory(LoadFireFinished)
  \/ NoHistory(LoadReturn)
  \/ NoHistory(RunTestsEnter)
  \/ NoHistory(RunTestsSpawn)
  \/ NoHistory(RunFireFinished)
  \/ NoHistory(RunReturn)

Exits == \E p \in Procs, code \in MainCodes : NoHistory(ExitEvent(p, code))

Settles == \E p \in Procs : NoHistory(LoadEnd(p)) \/ NoHistory(LoadError(p))

LiveSpec == Spec /\ WF_vars(Continue) /\ WF_vars(Exits) /\ WF_vars(Settles)

----------------------------------------------------------------------------
(* DisposeSpec: Spec with dispose() requests of the host.                  *)

DisposeNext ==
  \/ Next
  \/ NoHistory(Dispose)

DisposeSpec == Init /\ [][DisposeNext]_vars

----------------------------------------------------------------------------
(* CallSpec: the first accepted load() or run() call under every           *)
(* interleaving, with the notifications fired kept as history.             *)

\* the entry log keeps of a cancel() request that was accepted during call r
CancelRequest(r) == [emitter |-> "host", type |-> "cancel", run |-> r]

History(A) ==
  /\ A
  /\ log' = log \o (IF lastCall' \in {"cancel", "dispose"} /\ CancelAccepts THEN <<CancelRequest(call.id)>> ELSE <<>>)
                \o fired'
  /\ seen' = seen
  /\ subst' = subst

CallNext ==
  \/ History(FirstLoad)
  \/ History(LoadSpawn)
  \/ \E p \in Procs, node \in MainNodes : History(Discovered(p, node))
  \/ \E p \in Procs : History(LoadEnd(p))
  \/ \E p \in Procs : History(LoadError(p))
  \/ History(LoadFireFinished)
  \/ History(LoadReturn)
  \/ \E tests \in TestRequests : History(FirstRun(tests))
  \/ History(RunTestsEnter)
  \/ History(RunTestsSpawn)
  \/ \E p \in Procs, event \in MainEvents : History(Data(p, event))
  \/ \E p \in Procs : History(RunStreamEnd(p))
  \/ \E p \in Procs, code \in ExitCodes : History(ExitEvent(p, code))
  \/ History(RunFireFinished)
  \/ History(RunReturn)
  \/ History(Cancel)
  \/ History(Dispose)
  \/ \E p \in Procs : History(ProcDie(p))

CallSpec == Init /\ [][CallNext]_vars

----------------------------------------------------------------------------
(* EventSpec: one run() from the request to the dispatch of its first       *)
(* DeepEvents lifecycle events, of every kind and in every order, with the *)
(* events dispatched and the notifications fired kept as history.          *)

EventNext ==
  \/ \E tests \in TestRequests : History(FirstRun(tests))
  \/ History(RunTestsEnter)
  \/ History(RunTestsSpawn)
  \/ \E p \in Procs, event \in Events :
       DeepData(p, event) /\ log' = log \o fired' /\ seen' = Append(seen, event) /\ subst' = subst

EventSpec == Init /\ [][EventNext]_vars

----------------------------------------------------------------------------
(* LoadSpec: load() calls only, over all of TestNodes, with the values     *)
(* decoded during the latest accepted call kept as history.  The end of a  *)
(* discovery process, which no handler listens to, is left out.            *)

Decoding(A) == A /\ log' = log /\ seen' = seen /\ subst' = subst

LoadNext ==
  \/ Load /\ log' = log /\ seen' = (IF LoadAccepts THEN <<>> ELSE seen) /\ subst' = subst
  \/ Decoding(LoadSpawn)
  \/ \E p \in Procs, node \in TestNodes :
       /\ Len(seen) < MaxNodes
       /\ LoadData(p, node)
       /\ log' = log
       /\ seen' = (IF p = call.id THEN Append(seen, node) ELSE seen)
       /\ subst' = subst
  \/ \E p \in Procs : Decoding(LoadEnd(p))
  \/ \E p \in Procs : Decoding(LoadError(p))
  \/ Decoding(LoadFireFinished)
  \/ Decoding(LoadReturn)

LoadSpec == Init /\ [][LoadNext]_vars

----------------------------------------------------------------------------
(* BufferSpec: successive runs of one test whose events are failures and   *)
(* the end of the case (only requests that are accepted); seen keeps each   *)
(* event dispatched with the run whose callback received it.  The output    *)
(* streams stay open, so that an earlier run can deliver at any later time  *)

Scoped(A) == A /\ log' = log /\ seen' = seen /\ subst' = subst

BufferNext ==
  \/ RunAccepts /\ Scoped(Run(<<"c1">>))
  \/ Scoped(RunTestsEnter)
  \/ Scoped(RunTestsSpawn)
  \/ \E p \in Procs, event \in BufferEvents :
       Data(p, event) /\ log' = log /\ seen' = Append(seen, <<procs[p].run, event>>) /\ subst' = subst
  \/ \E p \in Procs, code \in MainCodes : Scoped(ExitEvent(p, code))
  \/ Scoped(RunFireFinished)
  \/ Scoped(RunReturn)
  \/ CancelAccepts /\ Scoped(Cancel)

BufferSpec == Init /\ [][BufferNext]_vars

----------------------------------------------------------------------------
(* ConfigSpec: one call of configGetStr, from the read of the setting to    *)
(* its return, for every configuration string and workspace folder path.   *)
(* The loop is a synchronous one: nothing else of the adapter runs before   *)
(* it ends, and it always takes its next step (weak fairness).              *)

\* configGetStr up to the loop: str is the setting, value the path the map
\* holds for '${workspaceFolder}'
ConfigInit ==
  /\ state = "idle"
  /\ currentTestProcess = NoProcess
  /\ picotestTests = <<>>
  /\ pc = "idle"
  /\ call = NoCall
  /\ calls = 0
  /\ procs = <<>>
  /\ fired = <<>>
  /\ lastCall = "none"
  /\ log = <<>>
  /\ seen = <<>>
  /\ subst \in {[str |-> c, value |-> v, at |-> "while", turn |-> 0] : c \in ConfigStrings, v \in WorkspacePaths}

Idle == UNCHANGED <<state, currentTestProcess, picotestTests, pc, call, calls, procs, fired,
                    lastCall, log, seen>>

\* one iteration of the while loop: str = str.replace(key, value)
\* A string that outgrows MaxStr characters is kept by its last MaxStr
\* characters, and turn counts modulo 2 the iterations that outgrew them.
\* What is dropped is text a replacement put before the key: the paths of
\* WorkspacePaths start with '/', which the key does not hold, so no
\* occurrence of the key begins in it, and the first occurrence stays among
\* the characters kept.
ConfigReplace ==
  /\ subst.at = "while"
  /\ indexOf(subst.str, WorkspaceFolderKey) > -1
  /\ LET str == replace(subst.str, WorkspaceFolderKey, subst.value)
     IN subst' = [subst EXCEPT !.str = Last(str, MaxStr),
                               !.turn = IF Len(str) > MaxStr THEN 1 - @ ELSE @]
  /\ Idle

\* the loop condition fails: forEach ends (the map has one entry) and
\* configGetStr returns str
ConfigReturn ==
  /\ subst.at = "while"
  /\ ~(indexOf(subst.str, WorkspaceFolderKey) > -1)
  /\ subst' = [subst EXCEPT !.at = "return"]
  /\ Idle

ConfigNext == ConfigReplace \/ ConfigReturn

ConfigSpec == ConfigInit /\ [][ConfigNext]_vars /\ WF_vars(ConfigNext)

----------------------------------------------------------------------------
(* LineSpec: the two places where line numbers pass from the test binary   *)
(* to the host: the discoveries of LoadSpec, or one run whose events are    *)
(* cases and failures (log and seen as in EventSpec)                        *)

LineNext ==
  \/ LoadNext
  \/ \E tests \in MainRequests : History(FirstRun(tests))
  \/ History(RunTestsEnter)
  \/ History(RunTestsSpawn)
  \/ \E p \in Procs, event \in LineEvents :
       DeepData(p, event) /\ log' = log \o fired' /\ seen' = Append(seen, event) /\ subst' = subst

LineSpec == Init /\ [][LineNext]_vars

----------------------------------------------------------------------------
(* Properties *)

IsTestOrSuite(n) == n.emitter = "testStates" /\ n.type \in {"test", "suite"}
IsResult(n) == n.emitter = "testStates" /\ n.type = "test" /\ n.state \in {"passed", "failed"}
IsRunFinished(n) == n.emitter = "testStates" /\ n.type = "finished"

\* the process of the in-flight run, if it is pending
OwnProcesses == {p \in Procs : procs[p].kind = "run" /\ procs[p].run = call.id}

\* C1: a load() or run() request handled while the state is not idle is a
\* no-op: the step changes neither the state nor the process slot, the test
\* list, the position and locals of the in-flight call, the number of
\* accepted calls or the subprocesses (none is spawned), and fires nothing.
C1_RequestWhileBusyIsNoOp ==
  [][ (state # "idle" /\ lastCall' \in {"load", "run"})
        => /\ fired' = <<>>
           /\ UNCHANGED <<state, currentTestProcess, picotestTests, pc, call, calls, procs>> ]_vars

\* a second run() was handled while the first run's subprocess is executing
C1_Witness == lastCall = "run" /\ state = "running" /\ pc = "run_execute"

IsCancelRequest(n) == n.emitter = "host" /\ n.type = "cancel"

\* C2: after a cancel() request accepted during a run, no 'passed' or
\* 'failed' notification of that run is fired, and once the run has returned
\* a retire event has been fired for it.
C2_CancelledRunRetires ==
  \A i \in DOMAIN log :
    IsCancelRequest(log[i]) =>
      /\ \A j \in DOMAIN log : j > i => ~(IsResult(log[j]) /\ log[j].run = log[i].run)
      /\ pc = "idle" =>
           \E j \in DOMAIN log : log[j].emitter = "retire" /\ log[j].run = log[i].run

\* C3: whenever the state is cancelled, kill() has been invoked on the live
\* subprocess of the cancelled run, wherever in the run the cancel arrived.
C3_CancelKillsSubprocess ==
  state = "cancelled" => \A p \in OwnProcesses : procs[p].alive => procs[p].kills > 0

\* C4: a cancelled run resolves: unless it already has, it fires 'finished',
\* and the state leaves cancelled for idle.
C4_CancelledRunResolves ==
  /\ (state = "cancelled" /\ pc # "run_finished")
       ~> (pc = "run_finished" /\ fired # <<>> /\ IsRunFinished(fired[Len(fired)]))
  /\ (state = "cancelled") ~> (state = "idle")

\* a run cancelled while its subprocess executes: kill() was invoked on it
C4_Witness ==
  /\ state = "cancelled"
  /\ pc = "run_execute"
  /\ \E p \in OwnProcesses : procs[p].kills = 1

C6_OneLiveSubprocess == Cardinality({p \in Procs : procs[p].alive}) <= 1

\* C7: the process slot is empty whenever the state is idle or loading and
\* whenever runTests has returned or thrown, and only the in-flight runTests
\* call writes it (its own process or none).
C7_SlotReleased ==
  /\ [](state \in {"idle", "loading"} => currentTestProcess = NoProcess)
  /\ [](pc \in {"run_after", "run_finished"} => currentTestProcess = NoProcess)
  /\ [][ currentTestProcess' # currentTestProcess
           => /\ pc \in {"run_config", "run_execute"}
              /\ currentTestProcess' \in {NoProcess, call.id} ]_vars

\* runTests has returned normally from an execution that was not cancelled
C7_Witness ==
  /\ pc = "run_after"
  /\ state = "running"
  /\ call.error = ""
  /\ currentTestProcess = NoProcess

\* C8: every test/suite notification is fired inside its run: while the
\* state is not idle, by the in-flight run, and before that run's 'finished'.
C8_EventsInsideRun ==
  \A i \in DOMAIN fired :
    IsTestOrSuite(fired[i]) =>
      /\ state # "idle"
      /\ fired[i].run = call.id
      /\ pc = "run_finished" => IsRunFinished(fired[Len(fired)])

\* the notifications a sequence of lifecycle events calls for, each as
\* <<type, id, state>>: one per SUITE_ENTER, SUITE_LEAVE, CASE_ENTER and
\* CASE_LEAVE, in order, none for FAILURE
RECURSIVE ExpectedNotifications(_)
ExpectedNotifications(events) ==
  IF events = <<>> THEN <<>>
  ELSE LET e == Head(events)
           this == CASE e.hook = "SUITE_ENTER" -> << <<"suite", e.suiteName, "running">> >>
                     [] e.hook = "SUITE_LEAVE" -> << <<"suite", e.suiteName, "completed">> >>
                     [] e.hook = "CASE_ENTER" -> << <<"test", e.testName, "running">> >>
                     [] e.hook = "CASE_LEAVE" ->
                          << <<"test", e.testName, IF e.fail = 0 THEN "passed" ELSE "failed">> >>
                     [] OTHER -> <<>>
       IN this \o ExpectedNotifications(Tail(events))

Brief(n) == <<n.type, IF n.type = "suite" THEN n.suite ELSE n.test, n.state>>

\* the notifications of EventSpec's run that follow 'started', (for a run of
\* everything) the root suite 'running' and the spawn
DispatchLog ==
  LET skip == IF runAll(call.tests) THEN 3 ELSE 2
  IN IF Len(log) <= skip THEN <<>> ELSE SubSeq(log, skip + 1, Len(log))

\* C9: the notifications fired for the events dispatched so far are, in the
\* order of the events, one per SUITE_ENTER, SUITE_LEAVE, CASE_ENTER and
\* CASE_LEAVE and none per FAILURE; SUITE_ENTER(S) CASE_ENTER(c1)
\* FAILURE(f.c,10,ASSERT,c1,"x!=y") CASE_LEAVE(c1,1) SUITE_LEAVE(S) yields
\* suite-running(S), test-running(c1), test-failed(c1) with one decoration at
\* line 9 and message "f.c:10 - [ASSERT] c1 | x!=y", suite-completed(S).
C9_NotificationsFollowEvents ==
  pc = "run_execute" =>
    /\ Map(Brief, DispatchLog) = ExpectedNotifications(seen)
    /\ seen = <<SE, CE, F1, CL1, SL>> =>
         /\ Map(Brief, DispatchLog) =
              << <<"suite", "S", "running">>, <<"test", "c1", "running">>,
                 <<"test", "c1", "failed">>, <<"suite", "S", "completed">> >>
         /\ Len(DispatchLog[3].decorations) = 1
         /\ DispatchLog[3].decorations[1].line = 9
         /\ DispatchLog[3].message = "f.c:10 - [ASSERT] c1 | x!=y"

C9_Witness == seen = <<SE, CE, F1, CL1, SL>>

\* the index of the last CASE_ENTER of a sequence of events, 0 if none
LastCaseEnter(events) ==
  LET S == {i \in DOMAIN events : events[i].hook = "CASE_ENTER"}
  IN IF S = {} THEN 0 ELSE CHOOSE i \in S : \A j \in S : j <= i

IsFailure(e) == e.hook = "FAILURE"

\* C10: the notification of a CASE_LEAVE that follows a CASE_ENTER is
\* 'passed' when fail is 0 and 'failed' otherwise, and carries one decoration
\* and one message line per FAILURE dispatched since the last CASE_ENTER, in
\* arrival order, and none for a FAILURE dispatched before it.
C10_CaseLeaveAttachesFailures ==
  (seen # <<>> /\ seen[Len(seen)].hook = "CASE_LEAVE" /\ LastCaseEnter(seen) > 0) =>
    LET leave == seen[Len(seen)]
        since == SelectSeq(SubSeq(seen, LastCaseEnter(seen) + 1, Len(seen)), IsFailure)
        n == log[Len(log)]
    IN /\ n.emitter = "testStates" /\ n.type = "test" /\ n.test = leave.testName
       /\ n.state = (IF leave.fail = 0 THEN "passed" ELSE "failed")
       /\ n.decorations = Map(toDecoration, since)
       /\ n.message = Join(Map(toMessage, since), "\n")

\* a FAILURE before the CASE_ENTER, two after it, then the CASE_LEAVE
C10_Witness == seen = <<F2, CE, F1, F2, CL1>>

IsTestStates(n) == n.emitter = "testStates"

\* C11: among the notifications a run fires on the test-states emitter,
\* 'started' comes first and only once, 'finished' comes only once and
\* nothing follows it, and a run that has returned has fired 'finished'
\* (also when the subprocess could not be spawned).
C11_StartedFirstFinishedLast ==
  LET l == SelectSeq(log, IsTestStates)
  IN l # <<>> =>
       /\ l[1].type = "started"
       /\ \A i \in 2..Len(l) : l[i].type # "started"
       /\ \A i \in 1..Len(l) : l[i].type = "finished" => i = Len(l)
       /\ pc = "idle" => l[Len(l)].type = "finished"

IsSpawn(n) == n.emitter = "child_process" /\ n.type = "spawn"

\* C12: a discovery whose working directory is missing fails in the step
\* that checks it, without spawning; the load then fires 'finished' with an
\* errorMessage and no suite.
C12_MissingCwdNeverSpawns ==
  /\ [][ (pc = "load_config" /\ call'.error = "Error: Directory does not exist")
           => /\ procs' = procs
              /\ \A i \in DOMAIN fired' : ~IsSpawn(fired'[i])
              /\ pc' = "load_settled" ]_vars
  /\ [](call.error = "Error: Directory does not exist" => call.id \notin Procs)
  /\ [][ (pc = "load_settled" /\ pc' = "load_finished"
            /\ call.error = "Error: Directory does not exist")
           => /\ Len(fired') = 1
              /\ fired'[1].emitter = "tests" /\ fired'[1].type = "finished"
              /\ "suite" \notin DOMAIN fired'[1]
              /\ fired'[1].errorMessage = "Error: Directory does not exist" ]_vars

\* a load has fired 'finished' after the directory check failed
C12_Witness == pc = "load_finished" /\ call.error = "Error: Directory does not exist"

\* C13: a discovery that settles with zero decoded values has been rejected:
\* the load carries an error, and so reports 'finished' with an errorMessage
\* rather than with a suite that has no children.
C13_EmptyStreamIsError ==
  (pc \in {"load_settled", "load_finished"} /\ call.tests = <<>>) => call.error # ""

\* C14: a load whose discovery output failed to decode fires 'finished' with
\* an errorMessage and no suite, holds none of the values decoded before the
\* error, and leaves the stored test list as it was.
C14_DecodeErrorDiscards ==
  /\ [][ (pc = "load_settled" /\ pc' = "load_finished" /\ call.error = "Error: Unexpected token")
           => /\ Len(fired') = 1
              /\ fired'[1].emitter = "tests" /\ fired'[1].type = "finished"
              /\ "suite" \notin DOMAIN fired'[1]
              /\ fired'[1].errorMessage = call.error
              /\ picotestTests' = picotestTests ]_vars
  /\ [](call.error = "Error: Unexpected token" => call.tests = <<>>)
  /\ [][ picotestTests' # picotestTests => call.error = "" ]_vars

\* a load fails to decode after it decoded a value, while the list of an
\* earlier load is stored
C14_Witness ==
  /\ pc = "load_finished"
  /\ call.error = "Error: Unexpected token"
  /\ seen # <<>>
  /\ picotestTests # <<>>

\* C15: the execution in progress ends only in the step in which its process
\* exits; it then has resolved, once, with the exit code of the process and
\* without an error, and the end of the output stream changes nothing of
\* the call.
C15_CompletionOnExitOnly ==
  /\ [][ (pc = "run_execute" /\ pc' # "run_execute")
           => /\ procs[call.id].alive
              /\ call.id \in Procs' => ~procs'[call.id].alive
              /\ pc' = "run_after"
              /\ call'.error = ""
              /\ Len(call'.result) = 1
              /\ call.id \in Procs' => call'.result[1].code = procs'[call.id].code ]_vars
  /\ [][ (pc = "run_execute" /\ call.id \in Procs' /\ procs[call.id].open /\ ~procs'[call.id].open)
           => UNCHANGED <<pc, call, state, currentTestProcess>> ]_vars
  /\ [][ call.result # <<>> => (call'.result = call.result \/ call' = NoCall) ]_vars
  /\ [](call.result # <<>> => call.error = "")

\* a cancelled execution has resolved with a null exit code while its output
\* stream had not ended
C15_Witness ==
  /\ pc = "run_after"
  /\ state = "cancelled"
  /\ call.result = <<PicotestTestResult(NullCode)>>
  /\ call.id \in Procs
  /\ procs[call.id].open /\ procs[call.id].kills = 1

\* the step in which a successful load fires 'finished' with its suite
FiresSuite == pc = "load_settled" /\ pc' = "load_finished" /\ call.error = ""

TestT1 == [type |-> "test", id |-> "t1", label |-> "t1", file |-> "f.c", line |-> 4]
SuiteRoot ==
  [type |-> "suite", id |-> "Root", label |-> "Root", file |-> "f.c", line |-> 2,
   children |-> <<TestT1>>]
SuiteE == [type |-> "suite", id |-> "E", label |-> "E", file |-> "g.c", line |-> 0, children |-> <<>>]
SuiteN ==
  [type |-> "suite", id |-> "N", label |-> "N", file |-> "h.c", line |-> 6,
   children |-> <<SuiteRoot, SuiteE>>]

KillStep ==
  /\ lastCall' \in {"cancel", "dispose"}
  /\ state = "running" /\ state' = "cancelled"
  /\ currentTestProcess # NoProcess

\* C17: over any sequence of cancel() and dispose() requests during and
\* after a run, a subprocess is terminated at most once, and only while the
\* run that spawned it is waiting for it to exit.
C17_KillAtMostOnce ==
  /\ [](\A p \in Procs : procs[p].kills <= 1)
  /\ [][ KillStep =>
           /\ currentTestProcess = call.id
           /\ pc = "run_execute"
           /\ call.id \in Procs
           /\ procs[call.id].alive
           /\ procs[call.id].kills = 0
           /\ procs'[call.id].kills = 1 ]_vars
  /\ [][ \A p \in Procs \cap Procs' :
           procs'[p].kills # procs[p].kills => (KillStep /\ p = call.id) ]_vars

\* the second run is in progress, its subprocess has been terminated once and
\* is still alive, and the latest request handled was a dispose()
C17_Witness ==
  /\ pc = "run_execute"
  /\ state = "cancelled"
  /\ lastCall = "dispose"
  /\ call.id \in Procs
  /\ procs[call.id].alive
  /\ procs[call.id].kills = 1
  /\ calls = MaxCalls

IsRunStarted(n) == n.emitter = "testStates" /\ n.type = "started"
IsRootSuite(n) == n.emitter = "testStates" /\ n.type = "suite" /\ n.suite = ROOT_SUITE_ID
IsRootEnd(n) == IsRootSuite(n) /\ n.state \in {"completed", "errored"}

\* C20: run(['*']) spawns the subprocess with no test id and fires root
\* 'running' right after 'started' and exactly one of root 'completed' (no
\* error) or root 'errored' (runTests threw) right before 'finished'; a run of
\* any other request spawns with its test ids and fires no root-suite
\* notification.
C20_RootSuiteBracketsRunAll ==
  /\ [](\A i \in DOMAIN log :
          IsRunStarted(log[i]) =>
            IF log[i].tests = <<ROOT_SUITE_ID>>
              THEN /\ i < Len(log)
                   /\ IsRootSuite(log[i + 1]) /\ log[i + 1].state = "running"
                   /\ \A j \in DOMAIN log :
                        /\ IsSpawn(log[j]) => log[j].args = runArgs
                        /\ (IsRootSuite(log[j]) /\ j # i + 1) =>
                             /\ IsRootEnd(log[j])
                             /\ j < Len(log)
                             /\ IsRunFinished(log[j + 1])
                        /\ IsRunFinished(log[j]) =>
                             /\ j > i + 1
                             /\ IsRootEnd(log[j - 1])
                             /\ \A k \in DOMAIN log : IsRootEnd(log[k]) => k = j - 1
              ELSE \A j \in DOMAIN log :
                     /\ ~IsRootSuite(log[j])
                     /\ IsSpawn(log[j]) => log[j].args = runArgs \o log[i].tests)
  /\ [][ (pc = "run_after" /\ pc' = "run_finished" /\ call.tests = <<ROOT_SUITE_ID>>)
           => /\ Len(fired') = 2
              /\ IsRootEnd(fired'[1])
              /\ fired'[1].state = "errored" <=> call.error # ""
              /\ IsRunFinished(fired'[2]) ]_vars

\* a run of everything has spawned its subprocess and fired 'finished'
C20_Witness ==
  /\ pc = "run_finished"
  /\ call.tests = <<ROOT_SUITE_ID>>
  /\ \E j \in DOMAIN log : IsSpawn(log[j]) /\ log[j].args = runArgs
  /\ Len(log) >= 5
  /\ IsRootEnd(log[Len(log) - 1]) /\ log[Len(log) - 1].state = "completed"

\* the events dispatched so far end with a CASE_LEAVE that has no CASE_ENTER
\* of its own: none since the previous CASE_LEAVE, or since the start of the
\* run if there was none
OrphanLeave ==
  /\ seen # <<>>
  /\ seen[Len(seen)].hook = "CASE_LEAVE"
  /\ LET L == {i \in 1..(Len(seen) - 1) : seen[i].hook = "CASE_LEAVE"}
         prev == IF L = {} THEN 0 ELSE CHOOSE i \in L : \A j \in L : j <= i
     IN \A i \in (prev + 1)..Len(seen) : seen[i].hook # "CASE_ENTER"

\* C21: a CASE_LEAVE that is not preceded by a CASE_ENTER of its own is
\* reported with an empty failures buffer: no decoration and an empty
\* message.
C21_OrphanLeaveIsEmpty ==
  (pc = "run_execute" /\ OrphanLeave) =>
    LET n == log[Len(log)]
    IN /\ n.emitter = "testStates" /\ n.type = "test"
       /\ n.test = seen[Len(seen)].testName
       /\ n.decorations = <<>>
       /\ n.message = ""

\* C21 (amended): a CASE_LEAVE that is not preceded by a CASE_ENTER of its
\* own is tolerated and reported with the failures buffer as it stands: one
\* decoration and one message line per FAILURE dispatched since the last
\* CASE_ENTER of the run, or since the start of the run if there was none.
C21_OrphanLeaveKeepsBuffer ==
  (pc = "run_execute" /\ OrphanLeave) =>
    LET leave == seen[Len(seen)]
        since == SelectSeq(SubSeq(seen, LastCaseEnter(seen) + 1, Len(seen)), IsFailure)
        n == log[Len(log)]
    IN /\ n.emitter = "testStates" /\ n.type = "test" /\ n.test = leave.testName
       /\ n.state = (IF leave.fail = 0 THEN "passed" ELSE "failed")
       /\ Len(n.decorations) = Len(since)
       /\ \A i \in DOMAIN since :
            /\ n.decorations[i].file = since[i].file
            /\ n.decorations[i].line = since[i].line - 1
       /\ seen = <<CL0>> => (n.state = "passed" /\ n.decorations = <<>> /\ n.message = "")
       /\ seen = <<F1, CL1>> =>
            /\ n.decorations = <<[line |-> 9, file |-> "f.c", message |-> "[ASSERT] c1 | x!=y"]>>
            /\ n.message = "f.c:10 - [ASSERT] c1 | x!=y"
       /\ seen = <<CE, F1, CL1, F2, CL0>> =>
            /\ n.state = "passed"
            /\ n.decorations = <<[line |-> 9, file |-> "f.c", message |-> "[ASSERT] c1 | x!=y"],
                                 [line |-> 0, file |-> "g.c", message |-> "[VERIFY] c1"]>>
            /\ n.message = "f.c:10 - [ASSERT] c1 | x!=y\ng.c:1 - [VERIFY] c1"

\* a second CASE_LEAVE without a CASE_ENTER of its own, after a FAILURE of the
\* case before it and one more
C21_Witness == pc = "run_execute" /\ seen = <<CE, F1, CL1, F2, CL0>>

\* C22: a FAILURE event appends itself to the failures buffer of its run,
\* fires no notification and changes neither the adapter state nor the
\* process handle; SUITE_ENTER, SUITE_LEAVE and CASE_LEAVE leave the buffer
\* unchanged, CASE_ENTER empties it, and nothing else changes it.
C22_FailureOnlyBuffers ==
  [][ (pc = "run_execute" /\ call.id \in Procs /\ call.id \in Procs') =>
        LET before == procs[call.id].failures
            after == procs'[call.id].failures
        IN IF seen' # seen
             THEN LET e == seen'[Len(seen')]
                  IN /\ e.hook = "FAILURE" =>
                          /\ after = Append(before, e)
                          /\ fired' = <<>>
                          /\ log' = log
                          /\ UNCHANGED <<state, currentTestProcess, picotestTests, pc, call>>
                     /\ e.hook \in {"SUITE_ENTER", "SUITE_LEAVE", "CASE_LEAVE"} => after = before
                     /\ e.hook = "CASE_ENTER" => after = <<>>
             ELSE after = before ]_vars

\* two failures are buffered across a suite and a case left in between
C22_Witness ==
  /\ pc = "run_execute"
  /\ seen = <<F1, SE, CL1, F2, SL>>
  /\ procs[call.id].failures = <<F1, F2>>

\* every line of a projected node is the raw line of the discovered node
\* minus one, at every depth
RECURSIVE LinesShifted(_, _)
LinesShifted(node, out) ==
  /\ out.line = node.line - 1
  /\ "subtests" \in DOMAIN node =>
       /\ "children" \in DOMAIN out
       /\ Len(out.children) = Len(node.subtests)
       /\ \A j \in DOMAIN node.subtests : LinesShifted(node.subtests[j], out.children[j])

\* C23: the 1-based to 0-based line conversion is applied once per value:
\* every projected suite and test at every depth has line = raw line - 1
\* (and the stored nodes keep their raw lines), every failure decoration has
\* line = failure line - 1, and the message text keeps the raw line.
C23_LinesConvertedOnce ==
  /\ [][ FiresSuite =>
           /\ Len(fired'[1].suite.children) = Len(call.tests)
           /\ \A i \in DOMAIN call.tests :
                /\ LinesShifted(call.tests[i], fired'[1].suite.children[i])
                /\ call.tests[i] = NestedNode =>
                     LET out == fired'[1].suite.children[i]
                     IN /\ out.line = 6
                        /\ out.children[1].line = 2
                        /\ out.children[1].children[1].line = 4
                        /\ out.children[2].line = 0
           /\ picotestTests' = call.tests ]_vars
  /\ [](( /\ pc = "run_execute"
          /\ seen # <<>>
          /\ seen[Len(seen)].hook = "CASE_LEAVE" ) =>
         LET since == SelectSeq(SubSeq(seen, LastCaseEnter(seen) + 1, Len(seen)), IsFailure)
             n == log[Len(log)]
         IN /\ Len(n.decorations) = Len(since)
            /\ \A i \in DOMAIN since : n.decorations[i].line = since[i].line - 1
            /\ n.message =
                 Join([i \in DOMAIN since |->
                         since[i].file \o ":" \o ToString(since[i].line) \o " - "
                           \o n.decorations[i].message], "\n")
            /\ seen = <<CE, F1, F2, CL1>> =>
                 /\ n.decorations[1].line = 9 /\ n.decorations[2].line = 0
                 /\ n.message = "f.c:10 - [ASSERT] c1 | x!=y\ng.c:1 - [VERIFY] c1")

\* a case has been left with two failures
C23_Witness == pc = "run_execute" /\ seen = <<CE, F1, F2, CL1>>

IsLoadNotification(n) == n.emitter = "tests"
LoadNotifications(s) == SelectSeq(s, IsLoadNotification)

\* C24: an accepted load() fires one 'started' when it is accepted and one
\* 'finished' before it returns, and nothing else on the tests emitter; the
\* 'finished' carries either a suite, whose id is '*' and whose children are
\* the nodes decoded during the call in stream order, or an errorMessage,
\* never both and never neither.
C24_LoadStartedThenFinished ==
  /\ [][ (lastCall' = "load" /\ LoadAccepts) =>
           (fired' = <<LoadStartedEvent(calls')>> /\ pc' = "load_config") ]_vars
  /\ [][ LoadNotifications(fired') # <<>> =>
           \/ lastCall' = "load" /\ LoadAccepts
           \/ /\ pc = "load_settled" /\ pc' = "load_finished"
              /\ Len(fired') = 1
              /\ fired'[1].type = "finished" /\ fired'[1].run = call.id
              /\ ("suite" \in DOMAIN fired'[1]) # ("errorMessage" \in DOMAIN fired'[1])
              /\ "suite" \in DOMAIN fired'[1] =>
                   /\ call.error = ""
                   /\ fired'[1].suite.id = "*"
                   /\ Len(fired'[1].suite.children) = Len(seen)
                   /\ \A i \in DOMAIN seen : fired'[1].suite.children[i].id = seen[i].name
              /\ "errorMessage" \in DOMAIN fired'[1] =>
                   (call.error # "" /\ fired'[1].errorMessage = call.error) ]_vars
  /\ [][ /\ (pc = "load_settled" /\ pc' # pc) =>
              (pc' = "load_finished" /\ LoadNotifications(fired') # <<>>)
         /\ (pc = "load_finished" /\ pc' # pc) => pc' = "idle"
         /\ (pc # "idle" /\ pc' = "idle") => pc = "load_finished" ]_vars

\* the second load() has fired 'finished' with a suite of the two nodes it decoded
C24_Witness ==
  /\ pc = "load_finished"
  /\ calls = MaxCalls
  /\ call.error = ""
  /\ seen = <<NestedNode, T1>>
  /\ picotestTests = seen
  /\ Len(fired) = 1 /\ "suite" \in DOMAIN fired[1]

StateTransitions ==
  { <<"idle", "loading">>, <<"loading", "idle">>, <<"idle", "running">>,
    <<"running", "cancelled">>, <<"running", "idle">>, <<"cancelled", "idle">> }

RunPositions == {"run_enter", "run_config", "run_execute", "run_after", "run_finished"}

\* C25: the adapter state changes only along idle->loading, loading->idle,
\* idle->running, running->cancelled, running->idle and cancelled->idle, and
\* it is cancelled only while a run() call is in flight.
C25_StateTransitions ==
  /\ [][ state' # state => <<state, state'>> \in StateTransitions ]_vars
  /\ [](state \in {"idle", "loading", "running", "cancelled"})
  /\ [](state = "cancelled" => (pc \in RunPositions /\ call # NoCall))

\* the second run has been cancelled and has fired 'finished'; its return
\* takes the state from cancelled to idle
C25_Witness ==
  /\ state = "cancelled"
  /\ pc = "run_finished"
  /\ calls = MaxCalls

\* C26: a cancel() requested while the state is idle, loading or cancelled
\* changes nothing: state, process handle slot, stored test list and the
\* call in flight are unchanged, no subprocess is killed and nothing is
\* fired; a discovery subprocess is never terminated.
C26_CancelOutsideRunIsNoOp ==
  /\ [][ (lastCall' = "cancel" /\ state # "running") =>
           /\ UNCHANGED <<state, currentTestProcess, picotestTests, pc, call, calls, procs>>
           /\ fired' = <<>> ]_vars
  /\ [](\A p \in Procs : procs[p].kind = "load" => procs[p].kills = 0)

\* a cancel() has just been handled during the second discovery, whose
\* subprocess is alive
C26_Witness ==
  /\ lastCall = "cancel"
  /\ state = "loading"
  /\ calls = MaxCalls
  /\ call.id \in Procs
  /\ procs[call.id].kind = "load" /\ procs[call.id].alive /\ procs[call.id].kills = 0

IsFinished(n) == n.emitter \in {"tests", "testStates"} /\ n.type = "finished"
FiresFinished(s) == \E i \in DOMAIN s : IsFinished(s[i])

\* C27: the state returns to idle only after the 'finished' notification of
\* the load or run in flight has been fired: when 'finished' is fired the
\* state is loading, running or cancelled and stays so, and a load() or
\* run() requested before the call returns is ignored.
C27_IdleOnlyAfterFinished ==
  /\ [][ FiresFinished(fired') =>
           /\ state \in {"loading", "running", "cancelled"}
           /\ state' = state
           /\ pc' \in {"load_finished", "run_finished"} ]_vars
  /\ [](pc \in {"load_finished", "run_finished"} => state # "idle")
  /\ [][ (state # "idle" /\ state' = "idle") => pc \in {"load_finished", "run_finished"} ]_vars
  /\ [][ (pc \in {"load_finished", "run_finished"} /\ lastCall' \in {"load", "run"}) =>
           /\ UNCHANGED <<state, currentTestProcess, picotestTests, pc, call, calls, procs>>
           /\ fired' = <<>> ]_vars

\* a load() requested after the first run fired 'finished' and before it
\* returned has been ignored
C27_Witness ==
  /\ pc = "run_finished"
  /\ lastCall = "load"
  /\ state = "running"
  /\ calls = 1

\* C28: the sentinel root id '*' is never passed to the subprocess as a test
\* id: whatever the run request, no argument of the spawn after the runArgs
\* words is '*'.
C28_SentinelNeverPassed ==
  \A j \in DOMAIN log :
    (IsSpawn(log[j]) /\ IsRunStarted(log[1])) =>
      \A k \in (Len(runArgs) + 1)..Len(log[j].args) : log[j].args[k] # ROOT_SUITE_ID

\* the events the callback of run r has received so far, in order
EventsOf(r) ==
  LET own == SelectSeq(seen, LAMBDA x : x[1] = r)
  IN [i \in DOMAIN own |-> own[i][2]]

\* the failures run r has received since its last CASE_ENTER
FailuresOf(r) ==
  LET events == EventsOf(r)
  IN SelectSeq(SubSeq(events, LastCaseEnter(events) + 1, Len(events)), IsFailure)

\* C29: the failures buffer is scoped to one run: it is empty when the first
\* event of a run is dispatched, it holds only failures received by that run,
\* and the failures a notification of a run carries are failures of that run,
\* never of an earlier one.
C29_BufferScopedToRun ==
  /\ [](\A p \in Procs :
          procs[p].kind = "run" =>
            /\ procs[p].failures = FailuresOf(procs[p].run)
            /\ EventsOf(procs[p].run) = <<>> => procs[p].failures = <<>>)
  /\ [][ seen' # seen =>
           LET r == seen'[Len(seen')][1]
               e == seen'[Len(seen')][2]
           IN e.hook = "CASE_LEAVE" =>
                /\ Len(fired') = 1
                /\ fired'[1].run = r
                /\ fired'[1].decorations = Map(toDecoration, FailuresOf(r))
                /\ EventsOf(r) = <<>> => (fired'[1].decorations = <<>> /\ fired'[1].message = "") ]_vars

\* the first run received a failure, and the first event of the second run,
\* a CASE_LEAVE, has been reported without it
C29_Witness ==
  /\ seen = << <<1, F1>>, <<2, CL1>> >>
  /\ Len(fired) = 1
  /\ fired[1].run = 2
  /\ fired[1].decorations = <<>>

IsRetire(n) == n.emitter = "retire"

\* C30: a run whose request is not exactly ['*'] spawns at most one
\* subprocess, exactly one once it has passed the spawn (none if it was
\* cancelled before), with the words of runArgs followed by the requested
\* test ids, unchanged and in request order.
C30_SpawnedOnceWithRequestedIds ==
  (log # <<>> /\ IsRunStarted(log[1]) /\ log[1].tests # <<"*">>) =>
    LET spawns == SelectSeq(log, IsSpawn)
        retired == SelectSeq(log, IsRetire)
    IN /\ Len(spawns) <= 1
       /\ \A i \in DOMAIN spawns :
            /\ spawns[i].args = <<"-j">> \o log[1].tests
            /\ spawns[i].run = log[1].run
       /\ log[1].tests = <<"*", "c1">> =>
            \A i \in DOMAIN spawns : spawns[i].args = <<"-j", "*", "c1">>
       /\ pc \in {"run_enter", "run_config"} => spawns = <<>>
       /\ pc = "run_execute" => Len(spawns) = 1
       /\ pc \in {"run_after", "run_finished", "idle"} => (Len(spawns) = 1 <=> retired = <<>>)

\* a run of two ids has spawned its subprocess and fired 'finished'
C30_Witness ==
  /\ pc = "run_finished"
  /\ call.tests = <<"*", "c1">>
  /\ Len(SelectSeq(log, IsSpawn)) = 1
  /\ call.result # <<>>

\* C31: the substitution of configGetStr terminates for every configuration
\* string and every workspace folder path, and the string it returns holds
\* no occurrence of '${workspaceFolder}'.
C31_SubstitutionTerminates ==
  /\ <>(subst.at = "return")
  /\ [](subst.at = "return" => indexOf(subst.str, WorkspaceFolderKey) = -1)

====
